---- MODULE Spec2Model ----
(***************************************************************************)
(* cbzopen: validate a zip archive, extract it into a temporary directory, *)
(* write index.html listing the top-level images, serve the directory over *)
(* HTTP until interrupted, then shut down and remove the directory.        *)
(* Model of src/src/cbzopen/__init__.py.                                   *)
(***************************************************************************)
EXTENDS Integers, Sequences, FiniteSets

VARIABLES pc, outcome, exitCode, stderr, args, archive,
          tempDir, files, cwd, sockState, boundPort, printedUrl, browser,
          is_shut_down, shutdown_request, backlog, inflight, response,
          aborted, caughtAt, slept, cleanup, filesAtBind

vars == <<pc, outcome, exitCode, stderr, args, archive,
          tempDir, files, cwd, sockState, boundPort, printedUrl, browser,
          is_shut_down, shutdown_request, backlog, inflight, response,
          aborted, caughtAt, slept, cleanup, filesAtBind>>

----------------------------------------------------------------------------
(* Bounds *)

MaxEntries == 3
MaxBacklog == 1

(* time.sleep(2) *)
GracePeriod == 2

----------------------------------------------------------------------------
(* Strings are sequences of one-character strings; a path is a sequence of *)
(* components.                                                             *)

CharOrder ==
  << ".", "/", "1", "B", "a", "b", "c", "d", "e", "f", "g", "h", "i", "j",
     "l", "m", "n", "o", "p", "s", "t", "x" >>

Ord(c) == CHOOSE i \in 1..Len(CharOrder) : CharOrder[i] = c

RECURSIVE StrLess(_, _)
StrLess(a, b) ==
  IF b = <<>> THEN FALSE
  ELSE IF a = <<>> THEN TRUE
  ELSE IF Ord(Head(a)) < Ord(Head(b)) THEN TRUE
  ELSE IF Ord(Head(a)) > Ord(Head(b)) THEN FALSE
  ELSE StrLess(Tail(a), Tail(b))

N_a_jpg      == << "a", ".", "j", "p", "g" >>
N_ab_jpg     == << "a", "b", ".", "j", "p", "g" >>
N_b_png      == << "b", ".", "p", "n", "g" >>
N_B_gif      == << "B", ".", "g", "i", "f" >>
N_dot_jpg    == << ".", "j", "p", "g" >>
N_notes_txt  == << "n", "o", "t", "e", "s", ".", "t", "x", "t" >>
N_index_html == << "i", "n", "d", "e", "x", ".", "h", "t", "m", "l" >>
N_ch1        == << "c", "h", "1" >>

EntryPaths ==
  { <<N_a_jpg>>, <<N_ab_jpg>>, <<N_b_png>>, <<N_B_gif>>, <<N_dot_jpg>>,
    <<N_notes_txt>>, <<N_index_html>>, <<N_ch1, N_a_jpg>>,
    <<N_index_html, N_a_jpg>> }

RequestPaths == { <<N_index_html>>, <<N_a_jpg>>, <<N_ch1>> }

ImageSuffixes ==
  { << ".", "j", "p", "g" >>, << ".", "j", "p", "e", "g" >>,
    << ".", "p", "n", "g" >>, << ".", "g", "i", "f" >>,
    << ".", "w", "e", "b", "p" >>, << ".", "a", "v", "i", "f" >> }

(* str.rfind(".") : 0 when there is no dot (positions are 1-based here) *)
RFindDot(name) ==
  LET dots == { i \in 1..Len(name) : name[i] = "." }
  IN  IF dots = {} THEN 0 ELSE CHOOSE i \in dots : \A j \in dots : j <= i

(* every file passes the extension filter *)
IsImage_NoFilter(name) == TRUE

(* pathlib.PurePath.suffix of the last component *)
Suffix(name) ==
  LET i == RFindDot(name)
  IN  IF 1 < i /\ i < Len(name) THEN SubSeq(name, i, Len(name)) ELSE <<>>

IsImage(name) == Suffix(name) \in ImageSuffixes

RECURSIVE PathStr(_)
PathStr(p) ==
  IF p = <<>> THEN <<>>
  ELSE IF Len(p) = 1 THEN p[1]
  ELSE p[1] \o <<"/">> \o PathStr(Tail(p))

IsPrefix(p, q) == Len(p) < Len(q) /\ SubSeq(q, 1, Len(p)) = p

(* two entries cannot both be extracted when one needs the other's path as *)
(* a directory                                                             *)
Conflict(A) == \E p \in A, q \in A : IsPrefix(p, q)

----------------------------------------------------------------------------
(* The temporary directory: a set of regular files; directories are the    *)
(* proper prefixes of the files' paths.                                    *)

Blob(p) == << [tag |-> "archive", src |-> PathStr(p)] >>

FilePaths(fs) == { f.path : f \in fs }

IsFile(fs, p) == p \in FilePaths(fs)

IsDir(fs, p) == \E q \in FilePaths(fs) : IsPrefix(p, q)

IterDir(fs) == { p[1] : p \in FilePaths(fs) }

ContentOf(fs, p) == (CHOOSE f \in fs : f.path = p).content

WriteText(fs, p, c) ==
  { f \in fs : f.path # p } \cup { [path |-> p, content |-> c] }

ExtractAll(A) == { [path |-> p, content |-> Blob(p)] : p \in A }

RECURSIVE Sorted(_)
Sorted(S) ==
  IF S = {} THEN <<>>
  ELSE LET m == CHOOSE x \in S : \A y \in S : x = y \/ StrLess(x, y)
       IN  <<m>> \o Sorted(S \ {m})

ImageFiles(fs) ==
  Sorted({ n \in IterDir(fs) : IsFile(fs, <<n>>) /\ IsImage(n) })

ImgTag(n) == [tag |-> "img", src |-> n]

Newline == [tag |-> "nl", src |-> <<>>]

RECURSIVE Join(_)
Join(names) ==
  IF names = <<>> THEN <<>>
  ELSE IF Len(names) = 1 THEN << ImgTag(names[1]) >>
  ELSE << ImgTag(names[1]), Newline >> \o Join(Tail(names))

Placeholder == [tag |-> "placeholder", src |-> <<>>]

Template ==
  << [tag |-> "head", src |-> <<>>], Placeholder, [tag |-> "foot", src |-> <<>>] >>

RECURSIVE Replace(_, _)
Replace(t, images) ==
  IF t = <<>> THEN <<>>
  ELSE IF Head(t) = Placeholder THEN images \o Replace(Tail(t), images)
  ELSE << Head(t) >> \o Replace(Tail(t), images)

IndexContent(fs) == Replace(Template, Join(ImageFiles(fs)))

(* the <img> sources of a document, in order *)
ImgSources(content) ==
  LET idx == { i \in 1..Len(content) : content[i].tag = "img" }
      RECURSIVE Pick(_)
      Pick(k) == IF k > Len(content) THEN <<>>
                 ELSE IF k \in idx THEN << content[k].src >> \o Pick(k + 1)
                 ELSE Pick(k + 1)
  IN  Pick(1)

----------------------------------------------------------------------------
(* HTTP *)

NoPath == <<>>

NoResponse == [path |-> NoPath, status |-> 0, body |-> <<>>]

NoUrl == [host |-> "", port |-> -1, path |-> <<>>]

Url(port) ==
  [host |-> "localhost", port |-> port, path |-> <<"/">> \o PathStr(<<N_index_html>>)]

EphemeralPorts == { 32768, 60999 }

RequestedPorts == { 0, 8080 }

(* SimpleHTTPRequestHandler.send_head, rooted at the working directory *)
Respond(root, p) ==
  IF IsFile(root, p) THEN [path |-> p, status |-> 200, body |-> ContentOf(root, p)]
  ELSE IF IsDir(root, p) THEN [path |-> p, status |-> 301, body |-> <<>>]
  ELSE [path |-> p, status |-> 404, body |-> <<>>]

ServedRoot == IF cwd = "temp" THEN files ELSE {}

ExitCodeOf(o) ==
  CASE o = "none" -> 0
    [] o = "UsageError" -> 2
    [] o = "KeyboardInterrupt" -> 130
    [] OTHER -> 1

----------------------------------------------------------------------------
(* Inputs: the command line, the file it names and the archive's entries.  *)

FileKinds == { "missing", "notzip", "zip" }

Archives == { A \in SUBSET EntryPaths : Cardinality(A) <= MaxEntries }

Init ==
  /\ pc = "ParseArgs"
  /\ outcome = "none"
  /\ exitCode = -1
  /\ stderr = <<>>
  /\ args \in [ok : BOOLEAN, file : FileKinds, open : BOOLEAN, port : RequestedPorts]
  /\ archive \in Archives
  /\ (args.file # "zip" => archive = {})
  /\ (~args.ok => args.file = "zip" /\ archive = {} /\ ~args.open /\ args.port = 0)
  /\ tempDir = "none"
  /\ files = {}
  /\ cwd = "orig"
  /\ sockState = "none"
  /\ boundPort = -1
  /\ printedUrl = NoUrl
  /\ browser = <<>>
  /\ is_shut_down = FALSE
  /\ shutdown_request = FALSE
  /\ backlog = {}
  /\ inflight = NoPath
  /\ response = NoResponse
  /\ aborted = NoPath
  /\ caughtAt = "none"
  /\ slept = 0
  /\ cleanup = "none"
  /\ filesAtBind = {}

(* groups of variables an action leaves alone *)
procVars == <<args, archive>>
fsVars   == <<tempDir, files, cwd, cleanup>>
netVars  == <<sockState, boundPort, printedUrl, browser, filesAtBind>>
srvVars  == <<is_shut_down, shutdown_request, backlog, inflight, response,
              aborted, caughtAt, slept>>

(* the process ends with no with-block to unwind *)
Exit(o) ==
  /\ pc' = "Exited"
  /\ outcome' = o
  /\ exitCode' = ExitCodeOf(o)

(* an exception propagates to the with-block(s) around position p *)
Unwind(p) ==
  IF p \in { "Announce", "OpenBrowser", "PrintHint", "CallServe", "ServeLoop",
             "Sleep", "ShutdownCall", "ShutdownWait", "ServerClose" }
  THEN "ExitServer"
  ELSE "Cleanup"

Raise(o) ==
  /\ pc' = Unwind(pc)
  /\ outcome' = o
  /\ UNCHANGED exitCode

----------------------------------------------------------------------------
(* main(), lines 30-54 *)

ParseArgs ==
  /\ pc = "ParseArgs"
  /\ IF args.ok
     THEN pc' = "CheckExists" /\ UNCHANGED <<outcome, exitCode>>
     ELSE Exit("UsageError")
  /\ stderr' = IF args.ok THEN stderr ELSE <<"usage">>
  /\ UNCHANGED <<procVars, fsVars, netVars, srvVars>>

(* the two checks in the opposite order *)
CheckExists_ZipFirst ==
  /\ pc = "CheckExists"
  /\ IF args.file # "zip"
     THEN Exit("SystemExit") /\ stderr' = <<"is not a valid zip file">>
     ELSE pc' = "CheckZip" /\ UNCHANGED <<outcome, exitCode, stderr>>
  /\ UNCHANGED <<procVars, fsVars, netVars, srvVars>>

CheckExists ==
  /\ pc = "CheckExists"
  /\ IF args.file = "missing"
     THEN Exit("SystemExit") /\ stderr' = <<"does not exist">>
     ELSE pc' = "CheckZip" /\ UNCHANGED <<outcome, exitCode, stderr>>
  /\ UNCHANGED <<procVars, fsVars, netVars, srvVars>>

CheckZip ==
  /\ pc = "CheckZip"
  /\ IF args.file # "zip"
     THEN Exit("SystemExit") /\ stderr' = <<"is not a valid zip file">>
     ELSE pc' = "MkTemp" /\ UNCHANGED <<outcome, exitCode, stderr>>
  /\ UNCHANGED <<procVars, fsVars, netVars, srvVars>>

----------------------------------------------------------------------------
(* main(), lines 57-68 *)

MkTemp ==
  /\ pc = "MkTemp"
  /\ pc' = "Extract"
  /\ tempDir' = "exists"
  /\ UNCHANGED <<outcome, exitCode, stderr, procVars, files, cwd, cleanup,
                 netVars, srvVars>>

(* extractall: every entry, or an error part of the way through *)
Extract ==
  /\ pc = "Extract"
  /\ \/ /\ ~Conflict(archive)
        /\ files' = ExtractAll(archive)
        /\ pc' = "CreateIndex"
        /\ UNCHANGED <<outcome, exitCode>>
     \/ /\ \E done \in SUBSET archive :
             /\ done # archive \/ archive = {}
             /\ ~Conflict(done)
             /\ files' = ExtractAll(done)
        /\ Raise("ExtractError")
  /\ UNCHANGED <<stderr, procVars, tempDir, cwd, cleanup, netVars, srvVars>>

(* index.html is kept when the archive brought one *)
CreateIndex_KeepExisting ==
  /\ pc = "CreateIndex"
  /\ IF IsDir(files, <<N_index_html>>)
     THEN Raise("IsADirectoryError") /\ UNCHANGED files
     ELSE /\ files' = IF IsFile(files, <<N_index_html>>) THEN files
                      ELSE WriteText(files, <<N_index_html>>, IndexContent(files))
          /\ pc' = "Chdir"
          /\ UNCHANGED <<outcome, exitCode>>
  /\ UNCHANGED <<stderr, procVars, tempDir, cwd, cleanup, netVars, srvVars>>

(* _create_index_html *)
CreateIndex ==
  /\ pc = "CreateIndex"
  /\ IF IsDir(files, <<N_index_html>>)
     THEN Raise("IsADirectoryError") /\ UNCHANGED files
     ELSE /\ files' = WriteText(files, <<N_index_html>>, IndexContent(files))
          /\ pc' = "Chdir"
          /\ UNCHANGED <<outcome, exitCode>>
  /\ UNCHANGED <<stderr, procVars, tempDir, cwd, cleanup, netVars, srvVars>>

Chdir ==
  /\ pc = "Chdir"
  /\ pc' = "Bind"
  /\ cwd' = "temp"
  /\ UNCHANGED <<outcome, exitCode, stderr, procVars, tempDir, files, cleanup,
                 netVars, srvVars>>

----------------------------------------------------------------------------
(* main(), lines 71-84: the server is started *)

Bind ==
  /\ pc = "Bind"
  /\ \/ /\ \E p \in (IF args.port = 0 THEN EphemeralPorts ELSE {args.port}) :
             boundPort' = p
        /\ sockState' = "listening"
        /\ filesAtBind' = files
        /\ pc' = "Announce"
        /\ UNCHANGED <<outcome, exitCode>>
     \/ /\ sockState' = "closed"
        /\ Raise("OSError")
        /\ UNCHANGED <<boundPort, filesAtBind>>
  /\ UNCHANGED <<stderr, procVars, fsVars, printedUrl, browser, srvVars>>

Announce ==
  /\ pc = "Announce"
  /\ printedUrl' = Url(boundPort)
  /\ pc' = "OpenBrowser"
  /\ UNCHANGED <<outcome, exitCode, stderr, procVars, fsVars, sockState,
                 boundPort, browser, filesAtBind, srvVars>>

(* the browser is opened whatever the flag says *)
OpenBrowser_Always ==
  /\ pc = "OpenBrowser"
  /\ browser' = Append(browser, printedUrl)
  /\ pc' = "PrintHint"
  /\ UNCHANGED <<outcome, exitCode, stderr, procVars, fsVars, sockState,
                 boundPort, printedUrl, filesAtBind, srvVars>>

OpenBrowser ==
  /\ pc = "OpenBrowser"
  /\ browser' = IF args.open THEN Append(browser, printedUrl) ELSE browser
  /\ pc' = "PrintHint"
  /\ UNCHANGED <<outcome, exitCode, stderr, procVars, fsVars, sockState,
                 boundPort, printedUrl, filesAtBind, srvVars>>

PrintHint ==
  /\ pc = "PrintHint"
  /\ pc' = "CallServe"
  /\ UNCHANGED <<outcome, exitCode, stderr, procVars, fsVars, netVars, srvVars>>

(* serve_forever is entered: the try of line 83 is active, the shut-down   *)
(* event is cleared and the loop's own try/finally begins                  *)
CallServe ==
  /\ pc = "CallServe"
  /\ is_shut_down' = FALSE
  /\ pc' = "ServeLoop"
  /\ UNCHANGED <<outcome, exitCode, stderr, procVars, fsVars, netVars,
                 shutdown_request, backlog, inflight, response, aborted,
                 caughtAt, slept>>

----------------------------------------------------------------------------
(* clients, and the serve loop handling one request at a time *)

Connect ==
  /\ sockState = "listening"
  /\ Cardinality(backlog) < MaxBacklog
  /\ \E p \in RequestPaths \ backlog : backlog' = backlog \cup {p}
  /\ UNCHANGED <<pc, outcome, exitCode, stderr, procVars, fsVars, netVars,
                 is_shut_down, shutdown_request, inflight, response, aborted,
                 caughtAt, slept>>

Accept ==
  /\ pc = "ServeLoop"
  /\ inflight = NoPath
  /\ \E p \in backlog :
       /\ inflight' = p
       /\ backlog' = backlog \ {p}
  /\ UNCHANGED <<pc, outcome, exitCode, stderr, procVars, fsVars, netVars,
                 is_shut_down, shutdown_request, response, aborted, caughtAt,
                 slept>>

Finish ==
  /\ pc = "ServeLoop"
  /\ inflight # NoPath
  /\ response' = Respond(ServedRoot, inflight)
  /\ inflight' = NoPath
  /\ UNCHANGED <<pc, outcome, exitCode, stderr, procVars, fsVars, netVars,
                 is_shut_down, shutdown_request, backlog, aborted, caughtAt,
                 slept>>

----------------------------------------------------------------------------
(* KeyboardInterrupt, raised in the main thread wherever it is *)

InterruptEarly ==
  /\ pc \in { "ParseArgs", "CheckExists", "CheckZip", "MkTemp" }
  /\ Exit("KeyboardInterrupt")
  /\ UNCHANGED <<stderr, procVars, fsVars, netVars, srvVars>>

InterruptSetup ==
  /\ pc \in { "Extract", "CreateIndex", "Chdir", "Bind", "Announce",
              "OpenBrowser", "PrintHint" }
  /\ Raise("KeyboardInterrupt")
  /\ UNCHANGED <<stderr, procVars, fsVars, netVars, srvVars>>

(* inside the try of line 83, before serve_forever's finally can run *)
InterruptCallServe ==
  /\ pc = "CallServe"
  /\ pc' = "Sleep"
  /\ caughtAt' = "CallServe"
  /\ UNCHANGED <<outcome, exitCode, stderr, procVars, fsVars, netVars,
                 is_shut_down, shutdown_request, backlog, inflight, response,
                 aborted, slept>>

(* inside the loop: the request being handled is closed, serve_forever's   *)
(* finally runs, line 85 catches                                           *)
InterruptServe ==
  /\ pc = "ServeLoop"
  /\ aborted' = inflight
  /\ inflight' = NoPath
  /\ shutdown_request' = FALSE
  /\ is_shut_down' = TRUE
  /\ pc' = "Sleep"
  /\ caughtAt' = "ServeLoop"
  /\ UNCHANGED <<outcome, exitCode, stderr, procVars, fsVars, netVars,
                 backlog, response, slept>>

(* a further interrupt inside the except block is not caught *)
InterruptShutdown ==
  /\ pc \in { "Sleep", "ShutdownCall", "ShutdownWait", "ServerClose" }
  /\ Raise("KeyboardInterrupt")
  /\ UNCHANGED <<stderr, procVars, fsVars, netVars, srvVars>>

----------------------------------------------------------------------------
(* main(), lines 85-90, and the exits of the two with-blocks *)

(* the handler goes back to serving *)
Sleep_Resume ==
  /\ pc = "Sleep"
  /\ slept' = GracePeriod
  /\ pc' = "ServeLoop"
  /\ UNCHANGED <<outcome, exitCode, stderr, procVars, fsVars, netVars,
                 is_shut_down, shutdown_request, backlog, inflight, response,
                 aborted, caughtAt>>

Sleep ==
  /\ pc = "Sleep"
  /\ slept' = GracePeriod
  /\ pc' = "ShutdownCall"
  /\ UNCHANGED <<outcome, exitCode, stderr, procVars, fsVars, netVars,
                 is_shut_down, shutdown_request, backlog, inflight, response,
                 aborted, caughtAt>>

(* BaseServer.shutdown: request, then wait for the event *)
ShutdownCall ==
  /\ pc = "ShutdownCall"
  /\ shutdown_request' = TRUE
  /\ pc' = "ShutdownWait"
  /\ UNCHANGED <<outcome, exitCode, stderr, procVars, fsVars, netVars,
                 is_shut_down, backlog, inflight, response, aborted, caughtAt,
                 slept>>

ShutdownWait ==
  /\ pc = "ShutdownWait"
  /\ is_shut_down
  /\ pc' = "ServerClose"
  /\ UNCHANGED <<outcome, exitCode, stderr, procVars, fsVars, netVars, srvVars>>

ServerClose ==
  /\ pc = "ServerClose"
  /\ sockState' = "closed"
  /\ backlog' = {}
  /\ pc' = "ExitServer"
  /\ UNCHANGED <<outcome, exitCode, stderr, procVars, fsVars, boundPort,
                 printedUrl, browser, filesAtBind, is_shut_down,
                 shutdown_request, inflight, response, aborted, caughtAt, slept>>

(* the server is not a context manager: nothing closes it on an exception *)
ExitServer_NoClose ==
  /\ pc = "ExitServer"
  /\ pc' = "Cleanup"
  /\ UNCHANGED <<outcome, exitCode, stderr, procVars, fsVars, netVars, srvVars>>

(* TCPServer.__exit__ *)
ExitServer ==
  /\ pc = "ExitServer"
  /\ sockState' = "closed"
  /\ backlog' = {}
  /\ pc' = "Cleanup"
  /\ UNCHANGED <<outcome, exitCode, stderr, procVars, fsVars, boundPort,
                 printedUrl, browser, filesAtBind, is_shut_down,
                 shutdown_request, inflight, response, aborted, caughtAt, slept>>

(* TemporaryDirectory(ignore_cleanup_errors=False) *)
Cleanup_Raises ==
  /\ pc = "Cleanup"
  /\ \/ /\ cleanup' = "ok"
        /\ files' = {}
        /\ tempDir' = "removed"
        /\ UNCHANGED outcome
        /\ exitCode' = ExitCodeOf(outcome)
     \/ /\ cleanup' = "failed"
        /\ outcome' = "OSError"
        /\ exitCode' = ExitCodeOf("OSError")
        /\ UNCHANGED <<files, tempDir>>
  /\ pc' = "Exited"
  /\ UNCHANGED <<stderr, procVars, cwd, netVars, srvVars>>

(* TemporaryDirectory.__exit__ with ignore_cleanup_errors=True *)
Cleanup ==
  /\ pc = "Cleanup"
  /\ \/ /\ cleanup' = "ok"
        /\ files' = {}
        /\ tempDir' = "removed"
     \/ /\ cleanup' = "failed"
        /\ UNCHANGED <<files, tempDir>>
  /\ pc' = "Exited"
  /\ exitCode' = ExitCodeOf(outcome)
  /\ UNCHANGED <<outcome, stderr, procVars, cwd, netVars, srvVars>>

----------------------------------------------------------------------------

Next ==
  \/ ParseArgs
  \/ CheckExists
  \/ CheckZip
  \/ MkTemp
  \/ Extract
  \/ CreateIndex
  \/ Chdir
  \/ Bind
  \/ Announce
  \/ OpenBrowser
  \/ PrintHint
  \/ CallServe
  \/ Connect
  \/ Accept
  \/ Finish
  \/ InterruptEarly
  \/ InterruptSetup
  \/ InterruptCallServe
  \/ InterruptServe
  \/ InterruptShutdown
  \/ Sleep
  \/ ShutdownCall
  \/ ShutdownWait
  \/ ServerClose
  \/ ExitServer
  \/ Cleanup

Spec == Init /\ [][Next]_vars

TypeOK ==
  /\ pc \in { "ParseArgs", "CheckExists", "CheckZip", "MkTemp", "Extract",
              "CreateIndex", "Chdir", "Bind", "Announce", "OpenBrowser",
              "PrintHint", "CallServe", "ServeLoop", "Sleep", "ShutdownCall",
              "ShutdownWait", "ServerClose", "ExitServer", "Cleanup", "Exited" }
  /\ exitCode \in { -1, 0, 1, 2, 130 }
  /\ sockState \in { "none", "listening", "closed" }
  /\ tempDir \in { "none", "exists", "removed" }
  /\ Len(browser) <= 1

----------------------------------------------------------------------------
(* Vocabulary of the properties *)

Last(p) == p[Len(p)]

EndsWith(name, s) ==
  /\ Len(name) >= Len(s)
  /\ SubSeq(name, Len(name) - Len(s) + 1, Len(name)) = s

(* the name is a non-empty stem followed by an allowed extension *)
AllowedExt(name) ==
  \E s \in ImageSuffixes : Len(name) > Len(s) /\ EndsWith(name, s)

IndexPath == <<N_index_html>>

(* index.html has been written and the directory is still there *)
IndexWritten ==
  pc \in { "Chdir", "Bind", "Announce", "OpenBrowser", "PrintHint",
           "CallServe", "ServeLoop", "Sleep", "ShutdownCall", "ShutdownWait",
           "ServerClose", "ExitServer" }

Listing == ImgSources(ContentOf(files, IndexPath))

Range(q) == { q[i] : i \in 1..Len(q) }

(* the whole-program state of the specification's state machine *)
State ==
  CASE pc = "ParseArgs" -> "Start"
    [] pc \in { "CheckExists", "CheckZip" } -> "Validating"
    [] pc \in { "MkTemp", "Extract" } -> "Extracting"
    [] pc = "CreateIndex" -> "Indexing"
    [] pc \in { "Chdir", "Bind", "Announce", "OpenBrowser", "PrintHint",
                "CallServe", "ServeLoop" } -> "Serving"
    [] pc \in { "Sleep", "ShutdownCall", "ShutdownWait", "ServerClose" } -> "ShuttingDown"
    [] pc \in { "ExitServer", "Cleanup" } ->
         IF outcome = "none" THEN "ShuttingDown" ELSE "Stopped"
    [] OTHER -> "Stopped"

Rank(st) ==
  CASE st = "Start" -> 0
    [] st = "Validating" -> 1
    [] st = "Extracting" -> 2
    [] st = "Indexing" -> 3
    [] st = "Serving" -> 4
    [] st = "ShuttingDown" -> 5
    [] OTHER -> 6

----------------------------------------------------------------------------
(* C1: for an archive whose entries all have an allowed image extension,   *)
(* index.html lists every entry exactly once, in ascending lexicographic   *)
(* order of relative path, sub-directories included.                       *)
C1_ListsEveryImage ==
  (IndexWritten /\ \A p \in archive : AllowedExt(Last(p)))
    => Listing = Sorted({ PathStr(p) : p \in archive })

(* C2: a file whose extension is not allowed is extracted, and index.html  *)
(* has no <img> for it; b.png, a.jpg, notes.txt yields a.jpg then b.png.   *)
C2_DisallowedNeverListed ==
  IndexWritten =>
    /\ \A p \in archive :
         ~AllowedExt(Last(p)) => IsFile(files, p) /\ PathStr(p) \notin Range(Listing)
    /\ archive = { <<N_b_png>>, <<N_a_jpg>>, <<N_notes_txt>> }
         => Listing = << N_a_jpg, N_b_png >>

C2_Witness ==
  /\ pc = "ServeLoop"
  /\ archive = { <<N_b_png>>, <<N_a_jpg>>, <<N_notes_txt>> }
  /\ IsFile(files, <<N_notes_txt>>)

(* C3: a missing file, or a file that is not a zip, ends the run with exit *)
(* code 1 and a message on standard error; the existence check comes       *)
(* first; no temporary directory, no write, no chdir, no socket.           *)
C3_ValidationFailure ==
  (args.ok /\ args.file # "zip") =>
    /\ tempDir = "none" /\ files = {} /\ cwd = "orig" /\ sockState = "none"
    /\ pc \in { "ParseArgs", "CheckExists", "CheckZip", "Exited" }
    /\ (pc = "Exited" /\ outcome # "KeyboardInterrupt") =>
         /\ exitCode = 1
         /\ stderr = IF args.file = "missing" THEN <<"does not exist">>
                     ELSE <<"is not a valid zip file">>

C3_Witness ==
  /\ pc = "Exited" /\ args.file = "missing" /\ exitCode = 1
  /\ stderr = <<"does not exist">>

(* C4: an interrupt delivered in the serve loop ends the process with exit *)
(* code 0 after the grace period, whatever happens afterwards.             *)
C4_InterruptExitsZero ==
  (pc = "Exited" /\ caughtAt = "ServeLoop") => (exitCode = 0 /\ slept = GracePeriod)

(* C5: with port 0 the server is bound to a port p > 0, the announced URL  *)
(* names that p, and /index.html is answered 200 with the generated index, *)
(* also when the archive has an index.html of its own.                     *)
C5_GeneratedIndexServed ==
  /\ (args.port = 0 /\ sockState = "listening") => boundPort > 0
  /\ printedUrl # NoUrl => (sockState # "none" /\ printedUrl = Url(boundPort))
  /\ response.path = IndexPath =>
       /\ response.status = 200
       /\ response.body = IndexContent(ExtractAll(archive))
       /\ response.body # Blob(IndexPath)

C5_Witness ==
  /\ args.port = 0
  /\ IndexPath \in archive
  /\ response.path = IndexPath /\ response.status = 200
  /\ printedUrl = Url(boundPort)

(* C6: in a run that reaches the server start-up the browser is opened iff *)
(* --open was given; at most once; only after the bind; with the printed   *)
(* URL, which carries the bound port.                                      *)
C6_BrowserIffOpen ==
  /\ Len(browser) <= 1
  /\ browser # <<>> =>
       /\ args.open
       /\ sockState # "none"
       /\ browser[1] = printedUrl
       /\ browser[1] = Url(boundPort)
  /\ pc \in { "PrintHint", "CallServe", "ServeLoop", "Sleep", "ShutdownCall",
              "ShutdownWait", "ServerClose" }
       => (browser # <<>> <=> args.open)

C6_Witness == pc = "ServeLoop" /\ Len(browser) = 1 /\ browser[1].port = boundPort

(* C7 as stated: the state only moves to its successor, and the one        *)
(* transition that skips states is Validating to Stopped.                  *)
C7_OnlyValidatingSkips ==
  [][ State' # State =>
        \/ Rank(State') = Rank(State) + 1
        \/ State = "Validating" /\ State' = "Stopped" ]_vars

(* C7: the state only moves forward and is never re-entered; a transition  *)
(* that skips states goes to Stopped; extraction starts after validation   *)
(* passed, indexing after the extraction completed, serving after          *)
(* index.html was written.                                                 *)
C7_ForwardOnly ==
  [][ /\ State' # State => (Rank(State') = Rank(State) + 1 \/ State' = "Stopped")
      /\ (State' = "Extracting" /\ State # "Extracting") => args.file = "zip"
      /\ (State' = "Indexing" /\ State # "Indexing") => files' = ExtractAll(archive)
      /\ (State' = "Serving" /\ State # "Serving") => IsFile(files', IndexPath)
    ]_vars

C7_Witness == pc = "Cleanup" /\ State = "Stopped" /\ outcome = "ExtractError"

(* C8: after an interrupt in the serve loop every response in flight       *)
(* completes, no request is served, and the socket is closed only after    *)
(* the grace period.                                                       *)
C8_GracefulOrder ==
  caughtAt = "ServeLoop" =>
    /\ aborted = NoPath
    /\ inflight = NoPath
    /\ sockState = "closed" => slept = GracePeriod

(* C9: the directory is written only before the listener is bound, is      *)
(* unchanged while the socket is open, and is removed only once the socket *)
(* is closed.                                                              *)
C9_WriteOnceReadOnly ==
  /\ [](sockState = "listening" => (files = filesAtBind /\ cleanup = "none"))
  /\ [][ /\ files' # files =>
              \/ pc \in { "Extract", "CreateIndex" } /\ sockState' = "none"
              \/ pc = "Cleanup" /\ sockState # "listening"
         /\ cleanup' # cleanup => sockState # "listening" ]_vars

C9_Witness ==
  /\ pc = "Exited" /\ cleanup = "ok" /\ sockState = "closed"
  /\ filesAtBind # {} /\ files = {}

(* C10: once the temporary directory exists every exit goes through its    *)
(* removal, and a failed removal leaves the outcome and the exit code as   *)
(* they were.                                                              *)
C10_CleanupNeverMasks ==
  /\ []((pc = "Exited" /\ tempDir # "none") => cleanup # "none")
  /\ [][ (pc' = "Exited" /\ tempDir # "none") =>
            /\ pc = "Cleanup"
            /\ outcome' = outcome
            /\ exitCode' = ExitCodeOf(outcome) ]_vars

C10_Witness ==
  /\ pc = "Exited" /\ cleanup = "failed" /\ tempDir = "exists"
  /\ outcome = "none" /\ exitCode = 0
====
